---- MODULE Spec2Model ----
(***************************************************************************)
(* State-machine model of the MariaDB adapters of ann-benchmarks:          *)
(*   ann_benchmarks/algorithms/mariadb_innodb/module.py  (MariaDBInnodb)   *)
(*   ann_benchmarks/algorithms/mariadb/module.py         (MariaDB)         *)
(*                                                                         *)
(* One adapter instance is driven by the harness through __init__, fit,    *)
(* set_query_arguments/query and done.  The engine server, the one-shot    *)
(* initialization procedure and the perf profilers are external processes  *)
(* that run concurrently with the adapter's single thread.                 *)
(***************************************************************************)
EXTENDS Integers, Sequences, FiniteSets, TLC

VARIABLES
    cls, metric, env, host,
    pc, stack, inCall, raised, raisedAt,
    perf_stat, perf_record, warnings, do_init, data_dir_made,
    initCalls, initProc,
    engine, launches, socket_exists, boundInTime, conn, cur,
    clock, lastElapsed, wake,
    perf_proc, procs, perf_records, perf_stats, phase, perf_msg,
    reports, idx,
    X, rows, queries, fitted, doneCalls,
    insts, loaded, tmp_files, stat_file

\* the inputs of the instance under study, the paths planned for the
\* adapter instances of the host (insts, loaded, tmp_files), and the stat
\* file put under results/ for the analysis (stat_file)
cfgVars == <<cls, metric, env, host, insts, loaded, tmp_files, stat_file>>
ctlVars == <<pc, stack, inCall, raised, raisedAt>>
optVars == <<perf_stat, perf_record, warnings, do_init, data_dir_made>>
initVars == <<initCalls, initProc>>
engVars == <<engine, launches, socket_exists, boundInTime, conn, cur>>
timeVars == <<clock, lastElapsed, wake>>
perfVars == <<perf_proc, procs, perf_records, perf_stats, phase, perf_msg>>
anVars == <<reports, idx>>
dbVars == <<X, rows, queries, fitted, doneCalls>>

vars == <<cfgVars, ctlVars, optVars, initVars, engVars, timeVars, perfVars,
          anVars, dbVars>>

----------------------------------------------------------------------------
(* Program constants and bounds *)

\* start_db: "if time.time() - start_time > 30"
Deadline == 30
\* start_db: "time.sleep(1)"
PollInterval == 1
\* perf_stop: "self._perf_proc.wait(10)"
GracePeriod == 10
\* prepare_options: "the file path is always under 107 character"
SocketPathLimit == 107

\* by how many units a time.sleep(1) may overshoot (sleep returns after at
\* least the time asked for; the scheduler decides how much later)
MaxOversleep == 1
\* number of set_query_arguments / query calls the harness makes
MaxQueries == 1
\* number of times the harness calls done()
MaxDone == 2
\* largest len(X) handed to fit
MaxVectors == 2
\* most lines of a stat file put under results/
MaxStatLines == 3
\* adapter instances constructed on the host
MaxInstances == 2
\* names tempfile.mktemp can draw for /tmp/mysql_<name>.sock
MaxNames == 2

Classes == {"MariaDBInnodb", "MariaDB"}
Metrics == {"euclidean", "angular", "hamming"}

\* os.environ as the adapters read it: PERF=yes, FLAMEGRAPH=yes,
\* MARIADB_ROOT_DIR set, MARIADB_DB_WORKSPACE set, DO_INIT_MARIADB on
Envs == [PERF : BOOLEAN, FLAMEGRAPH : BOOLEAN, ROOT : BOOLEAN,
         WORKSPACE : BOOLEAN, DO_INIT : BOOLEAN]

\* the host: what running "perf" does, which scripts shutil.which finds,
\* which executables exist under the MariaDB root
Hosts == [perf : {"ok", "notfound", "denied"}, collapse : BOOLEAN,
          flamegraph : BOOLEAN, install_db : BOOLEAN, mariadbd : BOOLEAN]

----------------------------------------------------------------------------
(* Control: the adapter's single thread, with a return stack for the       *)
(* nested calls perf_start -> perf_stop.                                   *)

Call(target, ret) ==
    /\ pc' = target
    /\ stack' = <<ret>> \o stack

Return ==
    /\ pc' = Head(stack)
    /\ stack' = Tail(stack)

\* an exception that nothing catches: it propagates to the harness
Raise(exc) ==
    /\ pc' = "raised"
    /\ raised' = exc
    /\ raisedAt' = pc
    /\ stack' = <<>>
    /\ UNCHANGED inCall

Goto(label) ==
    /\ pc' = label
    /\ UNCHANGED <<stack, inCall, raised, raisedAt>>

----------------------------------------------------------------------------
(* __init__ *)

MetricSupportedAcceptsAngular(m) == m \in {"euclidean", "angular"}

\* "if metric == 'angular': raise ... elif metric == 'euclidean': pass
\*  else: raise"
MetricSupported(m) == m = "euclidean"

Construct ==
    /\ pc = "new"
    /\ inCall' = "__init__"
    /\ IF MetricSupported(metric)
       THEN /\ pc' = IF cls = "MariaDBInnodb" THEN "prepare_options"
                     ELSE "verify_path"
            /\ UNCHANGED <<stack, raised, raisedAt>>
       ELSE /\ pc' = "raised"
            /\ raised' = "RuntimeError"
            /\ raisedAt' = "__init__"
            /\ UNCHANGED stack
    /\ UNCHANGED <<cfgVars, optVars, initVars, engVars, timeVars, perfVars,
                   anVars, dbVars>>

\* can_run_perf: True unless running perf raises; one warning when it does
CanRunPerf(h) == h.perf = "ok"
CanRunPerfWarnings(h) == IF h.perf = "ok" THEN 0 ELSE 1

\* can_run_flamegraph: perf, then stackcollapse-perf.pl, then flamegraph.pl;
\* the first missing one prints one warning and returns False
CanRunFlamegraph(h) == CanRunPerf(h) /\ h.collapse /\ h.flamegraph
CanRunFlamegraphWarnings(h) ==
    IF ~CanRunPerf(h) THEN CanRunPerfWarnings(h)
    ELSE IF ~h.collapse THEN 1
    ELSE IF ~h.flamegraph THEN 1
    ELSE 0

\* "os.environ.get('PERF', 'no') == 'yes' and can_run_perf()": the check
\* runs only when the selector is set
StatAvailable(e, h) == e.PERF /\ CanRunPerf(h)
RecordAvailable(e, h) == e.FLAMEGRAPH /\ CanRunFlamegraph(h)

ResolveStatKeepsBoth(e, h) == StatAvailable(e, h)
ResolveRecordUnchecked(e, h) == e.FLAMEGRAPH

\* "if self._perf_stat and self._perf_record: self._perf_stat = False"
ResolveStat(e, h) == StatAvailable(e, h) /\ ~RecordAvailable(e, h)
ResolveRecord(e, h) == RecordAvailable(e, h)

\* warnings printed by the first lines of prepare_options
ResolveWarnings(e, h) ==
    (IF e.PERF THEN CanRunPerfWarnings(h) ELSE 0)
    + (IF e.FLAMEGRAPH THEN CanRunFlamegraphWarnings(h) ELSE 0)
    + (IF StatAvailable(e, h) /\ RecordAvailable(e, h) THEN 1 ELSE 0)

\* MariaDBInnodb.prepare_options, in the order of its statements
PrepareOptions ==
    /\ pc = "prepare_options"
    /\ perf_stat' = ResolveStat(env, host)
    /\ perf_record' = ResolveRecord(env, host)
    /\ warnings' = warnings + ResolveWarnings(env, host)
    /\ IF ~env.ROOT
       THEN /\ Raise("RuntimeError")
            /\ UNCHANGED <<do_init, data_dir_made>>
       ELSE IF ~env.WORKSPACE
       THEN /\ Raise("RuntimeError")
            /\ do_init' = env.DO_INIT
            /\ UNCHANGED data_dir_made
       ELSE /\ do_init' = env.DO_INIT
            /\ data_dir_made' = TRUE
            /\ IF host.install_db /\ host.mariadbd
               THEN Goto("initialize_db")
               ELSE Raise("IndexError")
    /\ UNCHANGED <<cfgVars, initVars, engVars, timeVars, perfVars, anVars,
                   dbVars>>

\* MariaDB.verify_path; DO_INIT_MARIADB is a class attribute
VerifyPath ==
    /\ pc = "verify_path"
    /\ do_init' = env.DO_INIT
    /\ IF host.install_db /\ host.mariadbd
       THEN Goto("initialize_db")
       ELSE Raise("RuntimeError")
    /\ UNCHANGED <<cfgVars, perf_stat, perf_record, warnings, data_dir_made,
                   initVars, engVars, timeVars, perfVars, anVars, dbVars>>

----------------------------------------------------------------------------
(* initialize_db *)

\* launches the one-shot initialization procedure, when requested
InitializeDb ==
    /\ pc = "initialize_db"
    /\ IF do_init
       THEN \/ /\ initCalls' = initCalls + 1
               /\ initProc' = "running"
               /\ Goto("init_wait")
            \/ \* Popen / the shell cannot run the executable
               /\ initCalls' = initCalls + 1
               /\ initProc' = "missing"
               /\ IF cls = "MariaDBInnodb"
                  THEN Raise("OSError")
                  ELSE Raise("CalledProcessError")
       ELSE /\ Goto("start_db")
            /\ UNCHANGED initVars
    /\ UNCHANGED <<cfgVars, optVars, engVars, timeVars, perfVars, anVars,
                   dbVars>>

\* the initialization procedure ends, with exit status 0 or 1
InitExits ==
    /\ initProc = "running"
    /\ \E s \in {"exit0", "exit1"} : initProc' = s
    /\ UNCHANGED <<cfgVars, ctlVars, optVars, initCalls, engVars, timeVars,
                   perfVars, anVars, dbVars>>

\* MariaDBInnodb: "init_proc.wait()", the status is not looked at.
\* MariaDB: subprocess.run(..., check=True) raises on a non-zero status.
InitStatusRaises(c, status) == c = "MariaDB" /\ status # "exit0"

InitWait ==
    /\ pc = "init_wait"
    /\ initProc \in {"exit0", "exit1"}
    /\ IF InitStatusRaises(cls, initProc)
       THEN Raise("CalledProcessError")
       ELSE Goto("start_db")
    /\ UNCHANGED <<cfgVars, optVars, initVars, engVars, timeVars, perfVars,
                   anVars, dbVars>>

----------------------------------------------------------------------------
(* start_db *)

\* launches the engine server in the background and takes start_time
StartDb ==
    /\ pc = "start_db"
    /\ engine' = "running"
    /\ launches' = launches + 1
    /\ data_dir_made' = TRUE
    /\ clock' = 0
    /\ Goto("poll_time")
    /\ UNCHANGED <<cfgVars, perf_stat, perf_record, warnings, do_init,
                   initVars, socket_exists, boundInTime, conn, cur,
                   lastElapsed, wake, perfVars, anVars, dbVars>>

DeadlineExceededInclusive(elapsed) == elapsed >= Deadline

\* "time.time() - start_time > 30"
DeadlineExceeded(elapsed) == elapsed > Deadline

PollTimeRelaunches ==
    /\ pc = "poll_time"
    /\ lastElapsed' = clock
    /\ IF DeadlineExceeded(clock)
       THEN /\ launches' = launches + 1
            /\ Raise("TimeoutError")
       ELSE /\ Goto("poll_exists")
            /\ UNCHANGED launches
    /\ UNCHANGED <<cfgVars, optVars, initVars, engine, socket_exists,
                   boundInTime, conn, cur, clock, wake, perfVars, anVars,
                   dbVars>>

\* "if time.time() - start_time > 30: raise TimeoutError(...)"
PollTime ==
    /\ pc = "poll_time"
    /\ lastElapsed' = clock
    /\ IF DeadlineExceeded(clock)
       THEN Raise("TimeoutError")
       ELSE Goto("poll_exists")
    /\ UNCHANGED <<cfgVars, optVars, initVars, engVars, clock, wake,
                   perfVars, anVars, dbVars>>

\* "if os.path.exists(self._socket_file): break"
PollExists ==
    /\ pc = "poll_exists"
    /\ IF socket_exists
       THEN /\ Goto("connect")
            /\ UNCHANGED wake
       ELSE /\ Goto("poll_sleep")
            /\ wake' = clock + PollInterval
    /\ UNCHANGED <<cfgVars, optVars, initVars, engVars, clock, lastElapsed,
                   perfVars, anVars, dbVars>>

\* time.sleep(1) returns once at least one unit has passed
PollSleep ==
    /\ pc = "poll_sleep"
    /\ clock >= wake
    /\ Goto("poll_time")
    /\ UNCHANGED <<cfgVars, optVars, initVars, engVars, timeVars, perfVars,
                   anVars, dbVars>>

\* table t1 of database ann as an earlier run on the same data directory
\* may have left it: the identifiers of its rows, in insertion order
PriorTables == { << >>, <<0>>, <<0, 1, 2>> }

\* mariadb.connect and conn.cursor(); start_db's frame is gone.  The
\* session sees whatever the server found in its data directory.
Connect ==
    /\ pc = "connect"
    /\ clock' = 0
    /\ lastElapsed' = 0
    /\ wake' = 0
    /\ boundInTime' = FALSE
    /\ IF engine = "running"
       THEN \/ /\ conn' = "open"
               /\ cur' = TRUE
               /\ pc' = "idle"
               /\ \E t \in PriorTables : rows' = t
               /\ UNCHANGED <<stack, inCall, raised, raisedAt>>
            \/ \* the listener exists but does not accept sessions yet
               /\ Raise("mariadb.Error")
               /\ UNCHANGED <<conn, cur, rows>>
       ELSE /\ Raise("mariadb.Error")
            /\ UNCHANGED <<conn, cur, rows>>
    /\ UNCHANGED <<cfgVars, optVars, initVars, engine, launches,
                   socket_exists, perfVars, anVars, X, queries, fitted,
                   doneCalls>>

----------------------------------------------------------------------------
(* The environment: time and the engine process *)

InStartDbLoop == pc \in {"poll_time", "poll_exists", "poll_sleep"}

\* one unit of time passes while the thread is blocked in a timed wait: the
\* sleep of start_db's loop, or the wait(10) of perf_stop
Tick ==
    /\ \/ pc = "poll_sleep" /\ clock < wake + MaxOversleep
       \/ pc = "perf_wait" /\ clock < GracePeriod
    /\ clock' = clock + 1
    /\ UNCHANGED <<cfgVars, ctlVars, optVars, initVars, engVars, lastElapsed,
                   wake, perfVars, anVars, dbVars>>

\* the engine binds its socket: the endpoint file comes into existence
EndpointAppears ==
    /\ engine = "running"
    /\ ~socket_exists
    /\ socket_exists' = TRUE
    /\ boundInTime' = (InStartDbLoop /\ clock <= Deadline)
    /\ UNCHANGED <<cfgVars, ctlVars, optVars, initVars, engine, launches,
                   conn, cur, timeVars, perfVars, anVars, dbVars>>

\* the engine process ends: a crash, or the end of a requested shutdown
EngineExits ==
    /\ engine \in {"running", "stopping"}
    /\ engine' = "exited"
    /\ conn' = IF conn = "open" THEN "broken" ELSE conn
    /\ UNCHANGED <<cfgVars, ctlVars, optVars, initVars, launches,
                   socket_exists, boundInTime, cur, timeVars, perfVars,
                   anVars, dbVars>>


----------------------------------------------------------------------------
(* SQL over the cursor *)

\* self._cur.execute(...) succeeds while the connection is open and raises
\* a connector error once the server end is gone
ExecuteSucceeds == conn = "open"

----------------------------------------------------------------------------
(* perf_start / perf_stop *)

\* "if not self._perf_record and not self._perf_stat: return", negated
ProfilingEnabled == perf_record \/ perf_stat

\* perf_start(name), first half: the early return, then perf_stop()
PerfStart ==
    /\ pc = "perf_start"
    /\ IF ProfilingEnabled
       THEN Call("perf_stop", "perf_launch")
       ELSE Return
    /\ UNCHANGED <<inCall, raised, raisedAt>>
    /\ UNCHANGED <<cfgVars, optVars, initVars, engVars, timeVars, perfVars,
                   anVars, dbVars>>

\* self._test_time, taken once by __init__
TestTime == "test_time"

\* f"perf.data.{name}.{self._test_time}"
RecordName(name) == <<"perf.data", name, TestTime>>
StatNameWithoutPhase(name) == <<"perf.stat", "", TestTime>>

\* f"perf.stat.{name}.{self._test_time}"
StatName(name) == <<"perf.stat", name, TestTime>>

\* perf_start(name), second half: Popen of "perf record" / "perf stat"
\* against the engine's pid, assigned to self._perf_proc
PerfLaunch ==
    /\ pc = "perf_launch"
    /\ IF perf_record \/ perf_stat
       THEN /\ procs' = Append(procs, "running")
            /\ perf_proc' = Len(procs) + 1
       ELSE UNCHANGED <<procs, perf_proc>>
    /\ Goto("perf_append")
    /\ UNCHANGED <<perf_records, perf_stats, phase, perf_msg>>
    /\ UNCHANGED <<cfgVars, optVars, initVars, engVars, timeVars, anVars,
                   dbVars>>

\* perf_start(name), last statement: the artifact name is appended to the
\* list of the mode
PerfAppend ==
    /\ pc = "perf_append"
    /\ IF perf_record
       THEN /\ perf_records' = Append(perf_records, RecordName(phase))
            /\ UNCHANGED perf_stats
       ELSE IF perf_stat
       THEN /\ perf_stats' = Append(perf_stats, StatName(phase))
            /\ UNCHANGED perf_records
       ELSE UNCHANGED <<perf_records, perf_stats>>
    /\ Return
    /\ UNCHANGED <<inCall, raised, raisedAt, perf_proc, procs, phase,
                   perf_msg>>
    /\ UNCHANGED <<cfgVars, optVars, initVars, engVars, timeVars, anVars,
                   dbVars>>

\* a profiler subprocess is "running", "interrupted" (SIGINT delivered, not
\* ended yet) or "exited"
Alive(p) == p \in DOMAIN procs /\ procs[p] # "exited"

\* Popen.send_signal(SIGINT): delivered unless the process has ended
SendSignal(ps, p) ==
    [i \in DOMAIN ps |->
        IF i = p /\ ps[i] # "exited" THEN "interrupted" ELSE ps[i]]

PerfStopGuardIgnoresNone == ProfilingEnabled

\* "if (self._perf_record or self._perf_stat) and self._perf_proc is not None"
PerfStopGuard == ProfilingEnabled /\ perf_proc # 0

\* perf_stop, up to the start of wait(10); perf_msg is what this call of
\* perf_stop has printed
PerfStop ==
    /\ pc = "perf_stop"
    /\ perf_msg' = "none"
    /\ IF PerfStopGuard
       THEN /\ procs' = SendSignal(procs, perf_proc)
            /\ clock' = 0
            /\ Goto("perf_wait")
       ELSE /\ Return
            /\ UNCHANGED <<inCall, raised, raisedAt, procs, clock>>
    /\ UNCHANGED <<cfgVars, optVars, initVars, engVars, lastElapsed, wake,
                   perf_proc, perf_records, perf_stats, phase, anVars,
                   dbVars>>

\* wait(10) returns because the profiler has ended
PerfWaitReturns ==
    /\ pc = "perf_wait"
    /\ ~Alive(perf_proc)
    /\ perf_msg' = "terminated"
    /\ perf_proc' = 0
    /\ clock' = 0
    /\ Return
    /\ UNCHANGED <<inCall, raised, raisedAt>>
    /\ UNCHANGED <<cfgVars, optVars, initVars, engVars, lastElapsed, wake,
                   procs, perf_records, perf_stats, phase, anVars, dbVars>>

TimeoutExpiredPropagates == FALSE

\* "except subprocess.TimeoutExpired:" around wait(10)
TimeoutExpiredCaught == TRUE

\* wait(10) raises TimeoutExpired, which perf_stop catches and reports
PerfWaitTimesOut ==
    /\ pc = "perf_wait"
    /\ Alive(perf_proc)
    /\ clock >= GracePeriod
    /\ clock' = 0
    /\ IF TimeoutExpiredCaught
       THEN /\ perf_msg' = "timeout"
            /\ perf_proc' = 0
            /\ Return
            /\ UNCHANGED <<inCall, raised, raisedAt>>
       ELSE /\ Raise("TimeoutExpired")
            /\ UNCHANGED <<perf_msg, perf_proc>>
    /\ UNCHANGED <<cfgVars, optVars, initVars, engVars, lastElapsed, wake,
                   procs, perf_records, perf_stats, phase, anVars, dbVars>>

\* a profiler process ends (after the interrupt, or on its own)
ProfilerExits ==
    /\ \E i \in DOMAIN procs :
          /\ procs[i] # "exited"
          /\ procs' = [procs EXCEPT ![i] = "exited"]
    /\ UNCHANGED <<cfgVars, ctlVars, optVars, initVars, engVars, timeVars,
                   perf_proc, perf_records, perf_stats, phase, perf_msg,
                   anVars, dbVars>>

----------------------------------------------------------------------------
(* fit *)

CreateTableIfNotExists(t) == t

\* "DROP DATABASE IF EXISTS ann", "CREATE DATABASE ann", "USE ann",
\* "CREATE TABLE t1 (id INT PRIMARY KEY, ...)": t1 exists and is empty
CreateTable(t) == << >>

\* "for i, embedding in enumerate(X): INSERT INTO t1 (id, v) VALUES (i, ..)"
\* for n = len(X): one row per vector, identifiers 0..n-1 in input order
InsertAll(t, n) == t \o [i \in 1..n |-> i - 1]

\* the harness calls fit(X)
FitCall ==
    /\ pc = "idle"
    /\ ~fitted
    /\ \E n \in 0..MaxVectors : X' = n
    /\ pc' = "fit_prepare"
    /\ inCall' = "fit"
    /\ UNCHANGED <<stack, raised, raisedAt>>
    /\ UNCHANGED <<cfgVars, optVars, initVars, engVars, timeVars, perfVars,
                   anVars, rows, queries, fitted, doneCalls>>

\* DROP DATABASE IF EXISTS / CREATE DATABASE / USE / CREATE TABLE t1, then
\* perf_start("inserting") in MariaDBInnodb
FitPrepare ==
    /\ pc = "fit_prepare"
    /\ IF ExecuteSucceeds
       THEN /\ rows' = CreateTable(rows)
            /\ IF cls = "MariaDBInnodb"
               THEN /\ phase' = "inserting"
                    /\ Call("perf_start", "fit_insert")
                    /\ UNCHANGED <<inCall, raised, raisedAt>>
               ELSE /\ Goto("fit_insert")
                    /\ UNCHANGED phase
       ELSE /\ Raise("mariadb.Error")
            /\ UNCHANGED <<rows, phase>>
    /\ UNCHANGED <<cfgVars, optVars, initVars, engVars, timeVars, perf_proc,
                   procs, perf_records, perf_stats, perf_msg, anVars, X,
                   queries, fitted, doneCalls>>

\* "for i, embedding in enumerate(X): INSERT ... (i, ...)", then commit,
\* then perf_stop() in MariaDBInnodb
FitInsert ==
    /\ pc = "fit_insert"
    /\ IF ExecuteSucceeds
       THEN /\ rows' = InsertAll(rows, X)
            /\ IF cls = "MariaDBInnodb"
               THEN /\ Call("perf_stop", "fit_count")
                    /\ UNCHANGED <<inCall, raised, raisedAt>>
               ELSE Goto("fit_return")
       ELSE /\ Raise("mariadb.Error")
            /\ UNCHANGED rows
    /\ UNCHANGED <<cfgVars, optVars, initVars, engVars, timeVars, perfVars,
                   anVars, X, queries, fitted, doneCalls>>

\* "select count(*) from t1", then perf_start("indexing")
FitCount ==
    /\ pc = "fit_count"
    /\ IF ExecuteSucceeds
       THEN /\ phase' = "indexing"
            /\ Call("perf_start", "fit_index")
            /\ UNCHANGED <<inCall, raised, raisedAt>>
       ELSE /\ Raise("mariadb.Error")
            /\ UNCHANGED phase
    /\ UNCHANGED <<cfgVars, optVars, initVars, engVars, timeVars, perf_proc,
                   procs, perf_records, perf_stats, perf_msg, anVars,
                   dbVars>>

\* the index step executes nothing for any metric; then perf_stop()
FitIndex ==
    /\ pc = "fit_index"
    /\ Call("perf_stop", "fit_search")
    /\ UNCHANGED <<inCall, raised, raisedAt>>
    /\ UNCHANGED <<cfgVars, optVars, initVars, engVars, timeVars, perfVars,
                   anVars, dbVars>>

FitSearchOmitted ==
    /\ pc = "fit_search"
    /\ Goto("fit_return")
    /\ UNCHANGED <<cfgVars, optVars, initVars, engVars, timeVars, perfVars,
                   anVars, dbVars>>

\* perf_start("searching"), the last statement of fit
FitSearch ==
    /\ pc = "fit_search"
    /\ phase' = "searching"
    /\ Call("perf_start", "fit_return")
    /\ UNCHANGED <<inCall, raised, raisedAt>>
    /\ UNCHANGED <<cfgVars, optVars, initVars, engVars, timeVars, perf_proc,
                   procs, perf_records, perf_stats, perf_msg, anVars,
                   dbVars>>

FitReturn ==
    /\ pc = "fit_return"
    /\ fitted' = TRUE
    /\ Goto("idle")
    /\ UNCHANGED <<cfgVars, optVars, initVars, engVars, timeVars, perfVars,
                   anVars, X, rows, queries, doneCalls>>

----------------------------------------------------------------------------
(* set_query_arguments / query *)

\* the harness calls set_query_arguments(ef_search) or query(v, n)
QueryCall ==
    /\ pc = "idle"
    /\ fitted
    /\ doneCalls = 0
    /\ queries < MaxQueries
    /\ \E f \in {"set_query_arguments", "query"} :
          /\ inCall' = f
          /\ pc' = f
    /\ UNCHANGED <<stack, raised, raisedAt>>
    /\ UNCHANGED <<cfgVars, optVars, initVars, engVars, timeVars, perfVars,
                   anVars, dbVars>>

\* MariaDBInnodb executes "SET mhnsw_limit_multiplier"; MariaDB only
\* stores ef_search
SetQueryArguments ==
    /\ pc = "set_query_arguments"
    /\ IF cls = "MariaDBInnodb" /\ ~ExecuteSucceeds
       THEN Raise("mariadb.Error")
       ELSE Goto("idle")
    /\ UNCHANGED <<cfgVars, optVars, initVars, engVars, timeVars, perfVars,
                   anVars, dbVars>>

\* "SELECT id FROM t1 ORDER by vec_distance(v, %s) LIMIT %d"
Query ==
    /\ pc = "query"
    /\ IF ExecuteSucceeds
       THEN /\ Goto("idle")
            /\ queries' = queries + 1
       ELSE /\ Raise("mariadb.Error")
            /\ UNCHANGED queries
    /\ UNCHANGED <<cfgVars, optVars, initVars, engVars, timeVars, perfVars,
                   anVars, X, rows, fitted, doneCalls>>

----------------------------------------------------------------------------
(* done / perf_analysis *)

\* the harness calls done()
DoneCall ==
    /\ pc = "idle"
    /\ fitted
    /\ doneCalls < MaxDone
    /\ doneCalls' = doneCalls + 1
    /\ inCall' = "done"
    /\ pc' = "done_shutdown"
    /\ UNCHANGED <<stack, raised, raisedAt>>
    /\ UNCHANGED <<cfgVars, optVars, initVars, engVars, timeVars, perfVars,
                   anVars, X, rows, queries, fitted>>

\* done: the shutdown command, then perf_stop() in MariaDBInnodb
DoneShutdown ==
    /\ pc = "done_shutdown"
    /\ IF ExecuteSucceeds
       THEN /\ engine' = IF engine = "running" THEN "stopping" ELSE engine
            /\ IF cls = "MariaDBInnodb"
               THEN /\ Call("perf_stop", "perf_analysis")
                    /\ UNCHANGED <<inCall, raised, raisedAt>>
               ELSE Goto("done_return")
       ELSE /\ Raise("mariadb.Error")
            /\ UNCHANGED engine
    /\ UNCHANGED <<cfgVars, optVars, initVars, launches, socket_exists,
                   boundInTime, conn, cur, timeVars, perfVars, anVars, dbVars>>

\* done returns; what perf_analysis printed is not kept by the adapter
DoneReturn ==
    /\ pc = "done_return"
    /\ reports' = << >>
    /\ Goto("idle")
    /\ UNCHANGED <<cfgVars, optVars, initVars, engVars, timeVars, perfVars,
                   idx, dbVars>>

\* a line of a "perf stat -x," file: its first comma-separated field, as
\* characters, and the counter name it carries
StatLine(first, counter) == [first |-> first, counter |-> counter]

\* the results/perf.stat.* files perf_analysis may find: open() succeeds or
\* raises, and the lines read
StatFiles ==
    { [open |-> "ok",
       lines |-> << StatLine(<<"1", "0", "0">>, "cpu_core/cycles/"),
                    StatLine(<<"7">>, "instructions"),
                    StatLine(<<"2", "5", "0">>, "cpu_atom/cycles/") >>],
      [open |-> "ok", lines |-> << StatLine(<<"7">>, "instructions") >>],
      [open |-> "ok",
       lines |-> << StatLine(<<"<", "n", "c", ">">>, "cpu_core/cycles/") >>],
      [open |-> "FileNotFoundError", lines |-> << >>] }

\* stat_file when no particular file is under study: the files are then
\* whatever the profilers wrote
NoFile == [open |-> "none", lines |-> << >>]

\* first fields and counter names of the lines perf stat -x, writes
StatFirstFields ==
    { <<"1", "0", "0">>, <<"2", "5", "0">>, <<"7">>, <<"<", "n", "c", ">">> }
StatCounters == {"cpu_core/cycles/", "cpu_atom/cycles/", "instructions"}
StatLineKinds ==
    {StatLine(f, c) : f \in StatFirstFields, c \in StatCounters}

\* every stat file of at most MaxStatLines such lines, and a missing file
StatInputs ==
    {[open |-> "ok", lines |-> ls] :
        ls \in UNION {[1..n -> StatLineKinds] : n \in 0..MaxStatLines}}
    \cup {[open |-> "FileNotFoundError", lines |-> << >>]}

\* what open(f"results/{stat_file}") may find
StatSource == IF stat_file = NoFile THEN StatFiles ELSE {stat_file}

Digits == {"0", "1", "2", "3", "4", "5", "6", "7", "8", "9"}

DigitVal(c) ==
    CASE c = "0" -> 0 [] c = "1" -> 1 [] c = "2" -> 2 [] c = "3" -> 3
      [] c = "4" -> 4 [] c = "5" -> 5 [] c = "6" -> 6 [] c = "7" -> 7
      [] c = "8" -> 8 [] c = "9" -> 9

\* int(s) accepts s: a non-empty run of decimal digits (of the characters
\* the stat files above use)
IsIntLiteral(f) == Len(f) > 0 /\ \A i \in DOMAIN f : f[i] \in Digits

RECURSIVE IntOf(_)
\* int(s) for a run of decimal digits
IntOf(f) ==
    IF f = << >> THEN 0
    ELSE 10 * IntOf(SubSeq(f, 1, Len(f) - 1)) + DigitVal(f[Len(f)])

IsCycleLineCoreOnly(l) == l.counter = "cpu_core/cycles/"

\* "if 'cpu_core/cycles/' in line or 'cpu_atom/cycles/' in line"
IsCycleLine(l) == l.counter \in {"cpu_core/cycles/", "cpu_atom/cycles/"}

CycleLines(file) == SelectSeq(file.lines, IsCycleLine)

RECURSIVE SumValues(_)
\* sum(values)
SumValues(ls) ==
    IF ls = << >> THEN 0 ELSE IntOf(Head(ls).first) + SumValues(Tail(ls))

\* the exception the body of the "with open(...)" block raises, if any:
\* open() itself, or int() on a first field that is no number
StatException(file) ==
    IF file.open # "ok" THEN file.open
    ELSE IF \E i \in DOMAIN file.lines :
               IsCycleLine(file.lines[i]) /\ ~IsIntLiteral(file.lines[i].first)
    THEN "ValueError"
    ELSE "none"

\* "except (FileNotFoundError, IOError)"
StatCaught(exc) == exc \in {"FileNotFoundError", "PermissionError", "IOError"}

\* what perf_analysis prints for a stat file it could read
StatReport(name, file) ==
    IF CycleLines(file) = << >>
    THEN [artifact |-> name, result |-> "nodata", total |-> 0]
    ELSE [artifact |-> name, result |-> "cycles",
          total |-> SumValues(CycleLines(file))]

\* perf_analysis starts: the loops run over the accumulated lists
PerfAnalysis ==
    /\ pc = "perf_analysis"
    /\ reports' = << >>
    /\ idx' = 1
    /\ Goto("analyse_records")
    /\ UNCHANGED <<cfgVars, optVars, initVars, engVars, timeVars, perfVars,
                   dbVars>>

\* "if self._perf_record: for record in self._perf_records": the flame
\* graph pipeline succeeds, or fails with CalledProcessError, which is
\* caught and reported
AnalyseRecords ==
    /\ pc = "analyse_records"
    /\ IF perf_record /\ idx <= Len(perf_records)
       THEN /\ \E ok \in BOOLEAN :
                  reports' = Append(reports,
                      [artifact |-> perf_records[idx],
                       result |-> IF ok THEN "svg" ELSE "render_failed",
                       total |-> 0])
            /\ idx' = idx + 1
            /\ Goto("analyse_records")
       ELSE /\ idx' = 1
            /\ Goto("analyse_stats")
            /\ UNCHANGED reports
    /\ UNCHANGED <<cfgVars, optVars, initVars, engVars, timeVars, perfVars,
                   dbVars>>

\* "if self._perf_stat: for stat_file in self._perf_stats"
AnalyseStats ==
    /\ pc = "analyse_stats"
    /\ IF perf_stat /\ idx <= Len(perf_stats)
       THEN \E file \in StatSource :
               LET exc == StatException(file) IN
               IF exc = "none"
               THEN /\ reports' = Append(reports,
                                         StatReport(perf_stats[idx], file))
                    /\ idx' = idx + 1
                    /\ Goto("analyse_stats")
               ELSE IF StatCaught(exc)
               THEN /\ reports' = Append(reports,
                          [artifact |-> perf_stats[idx],
                           result |-> "read_error", total |-> 0])
                    /\ idx' = idx + 1
                    /\ Goto("analyse_stats")
               ELSE /\ Raise(exc)
                    /\ UNCHANGED <<reports, idx>>
       ELSE /\ idx' = 0
            /\ Goto("done_return")
            /\ UNCHANGED reports
    /\ UNCHANGED <<cfgVars, optVars, initVars, engVars, timeVars, perfVars,
                   dbVars>>

----------------------------------------------------------------------------
(* Path planning for several adapter instances on one host *)

\* interpreter processes running the harness
Interps == {"py1", "py2"}
\* a workspace path of 120 characters
LongWorkspace ==
    "/ws/wwwwwwwwwwwwwwwwwwwwwwwwwwwwwwwwwwwwwwwwwwwwwwwwwwwwwwww"
    \o "wwwwwwwwwwwwwwwwwwwwwwwwwwwwwwwwwwwwwwwwwwwwwwwwwwwwwwwwwwww"
\* values of MARIADB_DB_WORKSPACE: a short path and a long one
Workspaces == {"/ws/a", LongWorkspace}
TempNames == 1..MaxNames
NotLoaded == [sock |-> "none", ws |-> "none"]

\* the eight characters tempfile puts between prefix and suffix; the n-th
\* of the names it can draw
RandomPart(n) == "tmpname" \o ToString(n)

SocketDirInWorkspace(w) == w

\* the directory of the endpoint file of an instance whose workspace is w:
\* "dir='/tmp'"
SocketDir(w) == "/tmp"

MktempAnyName(dir, existing) ==
    {dir \o "/" \o "mysql_" \o RandomPart(n) \o ".sock" : n \in TempNames}

\* tempfile.mktemp(prefix='mysql_', suffix='.sock', dir=dir): a path
\* dir/mysql_XXXXXXXX.sock that no existing file has; the file itself is
\* not created
Mktemp(dir, existing) ==
    {dir \o "/" \o "mysql_" \o RandomPart(n) \o ".sock" : n \in TempNames}
        \ existing

\* "mariadb_db_workspace + '/data'" (MariaDB: MARIADB_DB_WORKSPACE + '/data')
DataDir(w) == w \o "/data"

\* the interpreter imports mariadb/module.py: the class body of MariaDB
\* runs once and fixes DATA_DIR and SOCKET_FILE for the process
ImportMariaDB ==
    /\ \E p \in Interps, w \in Workspaces :
          /\ loaded[p] = NotLoaded
          /\ \E n \in Mktemp(SocketDir(w), tmp_files) :
                loaded' = [loaded EXCEPT ![p] = [sock |-> n, ws |-> w]]
    /\ UNCHANGED <<insts, tmp_files>>
    /\ UNCHANGED <<cls, metric, env, host, stat_file, ctlVars, optVars,
                   initVars, engVars, timeVars, perfVars, anVars, dbVars>>

\* MariaDB.__init__ in interpreter p: every path is a class attribute
NewMariaDB ==
    /\ Len(insts) < MaxInstances
    /\ \E p \in Interps :
          /\ loaded[p] # NotLoaded
          /\ insts' = Append(insts,
                 [cls |-> "MariaDB", interp |-> p, ws |-> loaded[p].ws,
                  socket |-> loaded[p].sock,
                  data_dir |-> DataDir(loaded[p].ws),
                  existing |-> tmp_files])
    /\ UNCHANGED <<loaded, tmp_files>>
    /\ UNCHANGED <<cls, metric, env, host, stat_file, ctlVars, optVars,
                   initVars, engVars, timeVars, perfVars, anVars, dbVars>>

\* MariaDBInnodb.prepare_options in interpreter p with
\* MARIADB_DB_WORKSPACE = w: data_dir from the environment, socket from
\* mktemp
NewMariaDBInnodb ==
    /\ Len(insts) < MaxInstances
    /\ \E p \in Interps, w \in Workspaces :
          \E n \in Mktemp(SocketDir(w), tmp_files) :
             insts' = Append(insts,
                 [cls |-> "MariaDBInnodb", interp |-> p, ws |-> w,
                  socket |-> n, data_dir |-> DataDir(w),
                  existing |-> tmp_files])
    /\ UNCHANGED <<loaded, tmp_files>>
    /\ UNCHANGED <<cls, metric, env, host, stat_file, ctlVars, optVars,
                   initVars, engVars, timeVars, perfVars, anVars, dbVars>>

\* the engine of instance i binds its socket: the file appears under /tmp
EngineBinds ==
    /\ \E i \in DOMAIN insts :
          /\ insts[i].socket \notin tmp_files
          /\ tmp_files' = tmp_files \cup {insts[i].socket}
    /\ UNCHANGED <<insts, loaded>>
    /\ UNCHANGED <<cls, metric, env, host, stat_file, ctlVars, optVars,
                   initVars, engVars, timeVars, perfVars, anVars, dbVars>>

----------------------------------------------------------------------------

Init ==
    /\ cls \in Classes
    /\ metric \in Metrics
    /\ env \in Envs
    /\ host \in Hosts
    \* what the constructor never reads is left at its default: MariaDB
    \* reads neither the profiling selectors nor the perf tools; perf is
    \* probed only when a selector is set, and the two scripts are looked
    \* up only for FLAMEGRAPH=yes once perf has run
    /\ cls = "MariaDB" =>
          /\ ~env.PERF /\ ~env.FLAMEGRAPH /\ env.ROOT /\ env.WORKSPACE
    /\ (~env.PERF /\ ~env.FLAMEGRAPH) => host.perf = "ok"
    /\ (~env.FLAMEGRAPH \/ host.perf # "ok") =>
          (host.collapse /\ host.flamegraph)
    /\ ~host.collapse => host.flamegraph
    /\ pc = "new" /\ stack = <<>> /\ inCall = "none"
    /\ raised = "none" /\ raisedAt = "none"
    /\ perf_stat = FALSE /\ perf_record = FALSE /\ warnings = 0
    /\ do_init = FALSE /\ data_dir_made = FALSE
    /\ initCalls = 0 /\ initProc = "none"
    /\ engine = "none" /\ launches = 0 /\ socket_exists = FALSE
    /\ boundInTime = FALSE /\ conn = "none" /\ cur = FALSE
    /\ clock = 0 /\ lastElapsed = 0 /\ wake = 0
    /\ perf_proc = 0 /\ procs = <<>> /\ perf_records = <<>>
    /\ perf_stats = <<>> /\ phase = "none" /\ perf_msg = "none"
    /\ reports = <<>> /\ idx = 0
    /\ X = 0 /\ rows = <<>> /\ queries = 0 /\ fitted = FALSE /\ doneCalls = 0
    /\ insts = << >> /\ loaded = [p \in Interps |-> NotLoaded]
    /\ tmp_files = {}
    /\ stat_file = NoFile

Next ==
    \/ Construct
    \/ PrepareOptions
    \/ VerifyPath
    \/ InitializeDb
    \/ InitExits
    \/ InitWait
    \/ StartDb
    \/ PollTime
    \/ PollExists
    \/ PollSleep
    \/ Connect
    \/ Tick
    \/ EndpointAppears
    \/ EngineExits
    \/ PerfStart
    \/ PerfLaunch
    \/ PerfAppend
    \/ PerfStop
    \/ PerfWaitReturns
    \/ PerfWaitTimesOut
    \/ ProfilerExits
    \/ FitCall
    \/ FitPrepare
    \/ FitInsert
    \/ FitCount
    \/ FitIndex
    \/ FitSearch
    \/ FitReturn
    \/ QueryCall
    \/ SetQueryArguments
    \/ Query
    \/ DoneCall
    \/ DoneShutdown
    \/ DoneReturn
    \/ PerfAnalysis
    \/ AnalyseRecords
    \/ AnalyseStats

Spec == Init /\ [][Next]_vars

\* several instances planning their paths on one host; the instance under
\* study stays unconstructed
InitPaths ==
    /\ Init
    /\ cls = "MariaDBInnodb" /\ metric = "euclidean"
    /\ env = [PERF |-> FALSE, FLAMEGRAPH |-> FALSE, ROOT |-> TRUE,
              WORKSPACE |-> TRUE, DO_INIT |-> TRUE]
    /\ host = [perf |-> "ok", collapse |-> TRUE, flamegraph |-> TRUE,
               install_db |-> TRUE, mariadbd |-> TRUE]

NextPaths ==
    \/ ImportMariaDB
    \/ NewMariaDB
    \/ NewMariaDBInnodb
    \/ EngineBinds

SpecPaths == InitPaths /\ [][NextPaths]_vars

\* perf_analysis over one given stat file: done() of a Stat-mode instance
\* has shut the engine down and stopped the last profiler, the three stat
\* artifacts of fit are about to be read, and each open() finds stat_file
InitStat ==
    /\ stat_file \in StatInputs
    /\ cls = "MariaDBInnodb" /\ metric = "euclidean"
    /\ env = [PERF |-> TRUE, FLAMEGRAPH |-> FALSE, ROOT |-> TRUE,
              WORKSPACE |-> TRUE, DO_INIT |-> FALSE]
    /\ host = [perf |-> "ok", collapse |-> TRUE, flamegraph |-> TRUE,
               install_db |-> TRUE, mariadbd |-> TRUE]
    /\ pc = "analyse_stats" /\ stack = << >> /\ inCall = "done"
    /\ raised = "none" /\ raisedAt = "none"
    /\ perf_stat = TRUE /\ perf_record = FALSE /\ warnings = 0
    /\ do_init = FALSE /\ data_dir_made = TRUE
    /\ initCalls = 0 /\ initProc = "none"
    /\ engine = "stopping" /\ launches = 1 /\ socket_exists = TRUE
    /\ boundInTime = FALSE /\ conn = "open" /\ cur = TRUE
    /\ clock = 0 /\ lastElapsed = 0 /\ wake = 0
    /\ perf_proc = 0 /\ procs = <<"exited", "exited", "exited">>
    /\ perf_records = << >>
    /\ perf_stats = <<StatName("inserting"), StatName("indexing"),
                      StatName("searching")>>
    /\ phase = "searching" /\ perf_msg = "terminated"
    /\ reports = << >> /\ idx = 1
    /\ X = 0 /\ rows = << >> /\ queries = 0 /\ fitted = TRUE
    /\ doneCalls = 1
    /\ insts = << >> /\ loaded = [p \in Interps |-> NotLoaded]
    /\ tmp_files = {}

NextStat ==
    \/ AnalyseStats
    \/ DoneReturn

SpecStat == InitStat /\ [][NextStat]_vars

----------------------------------------------------------------------------
(* Properties *)

LiveProfilers == {i \in DOMAIN procs : procs[i] # "exited"}
ArtifactCount == Len(perf_records) + Len(perf_stats)
\* the artifact list of the resolved mode
ModeList == IF perf_record THEN perf_records ELSE perf_stats
OptionsResolved ==
    /\ cls = "MariaDBInnodb"
    /\ MetricSupported(metric)
    /\ pc \notin {"new", "prepare_options"}

\* C1: at most one profiler subprocess of the instance is alive at any
\* time, whatever the profilers do, a profiler that ignores SIGINT past the
\* grace period included.
C1_AtMostOneProfilerAlive == Cardinality(LiveProfilers) <= 1

\* C2 (as claimed): the readiness wait succeeds if and only if the endpoint
\* file came into existence within the 30 units after the launch, and the
\* timeout is raised only after more than 30 units; so a wait that timed
\* out never had the endpoint appear within the deadline.
C2_SuccessIffEndpointAppearsInTime ==
    /\ (inCall = "__init__" /\ pc = "connect") => boundInTime
    /\ raised = "TimeoutError" => (lastElapsed > Deadline /\ ~boundInTime)

\* C2 (amended): the wait succeeds only when a poll that follows a deadline
\* check reading at most 30 units finds the endpoint file, and the timeout
\* is raised only by a deadline check that reads more than 30 units, never
\* earlier.
C2_ReadinessWait ==
    /\ (inCall = "__init__" /\ pc = "connect") =>
          (socket_exists /\ lastElapsed <= Deadline)
    /\ raised = "TimeoutError" =>
          (raisedAt = "poll_time" /\ lastElapsed > Deadline
           /\ clock > Deadline)
    /\ (pc = "poll_exists" => lastElapsed <= Deadline)

\* the wait timed out at the first deadline check past the deadline
C2_Witness ==
    /\ raised = "TimeoutError"
    /\ lastElapsed = Deadline + 1
    /\ launches = 1

\* C3: done() never raises, whatever the state of the engine and of the
\* connection, a second call to done() included.
C3_DoneNeverRaises == ~(inCall = "done" /\ pc = "raised")

\* C4: teardown always completes: once done() has ended, by returning or
\* by raising, the profiler that was active when it was called has been
\* stopped (done() starts no profiler, so one still registered at the end
\* was never interrupted), and a done() that reaches its return has
\* post-processed every accumulated artifact.
C4_TeardownCompletes ==
    /\ (inCall = "done" /\ pc \in {"idle", "raised"}) => perf_proc = 0
    /\ pc = "done_return" => Len(reports) = ArtifactCount

\* C5: when the initialization procedure exits with a non-zero status or
\* cannot be executed, construction fails, the engine is never launched,
\* and initialization is invoked at most once.
C5_InitFailureIsFatal ==
    /\ initCalls <= 1
    /\ initProc \in {"exit1", "missing"} =>
          /\ launches = 0
          /\ engine = "none"
          /\ pc \in {"init_wait", "raised"}

\* C6 (as claimed): with PERF=yes and FLAMEGRAPH=yes the resolved mode is
\* FlameGraph and exactly one warning is recorded, for every outcome of the
\* tool-availability checks.
C6_BothRequestedAlwaysFlameGraph ==
    (OptionsResolved /\ env.PERF /\ env.FLAMEGRAPH) =>
        (perf_record /\ ~perf_stat /\ warnings = 1)

\* C6 (amended): with PERF=yes and FLAMEGRAPH=yes the resolved mode is
\* FlameGraph with exactly one warning when the availability checks
\* succeed (perf runs, both scripts are found); when perf cannot run the
\* mode is Disabled, and when only a script is missing it is Stat; the two
\* modes are never both set.
C6_BothRequestedResolution ==
    /\ ~(perf_stat /\ perf_record)
    /\ (OptionsResolved /\ env.PERF /\ env.FLAMEGRAPH) =>
          /\ (host.perf = "ok" /\ host.collapse /\ host.flamegraph) =>
                (perf_record /\ ~perf_stat /\ warnings = 1)
          /\ host.perf # "ok" => (~perf_record /\ ~perf_stat)
          /\ (host.perf = "ok" /\ ~(host.collapse /\ host.flamegraph)) =>
                (perf_stat /\ ~perf_record)

\* both selectors set, every tool available, options resolved
C6_Witness ==
    /\ OptionsResolved /\ env.PERF /\ env.FLAMEGRAPH
    /\ host.perf = "ok" /\ host.collapse /\ host.flamegraph
    /\ perf_record /\ warnings = 1
    /\ pc = "initialize_db"

\* C7: for every metric other than "euclidean" the constructor raises
\* before any path is created, before initialization and before the engine
\* is started: no engine process, connection or profiler exists afterwards.
C7_UnsupportedMetricFailsFast ==
    (metric # "euclidean" /\ pc # "new") =>
        /\ pc = "raised" /\ raised = "RuntimeError" /\ inCall = "__init__"
        /\ ~data_dir_made
        /\ initCalls = 0 /\ initProc = "none"
        /\ launches = 0 /\ engine = "none" /\ ~socket_exists
        /\ conn = "none" /\ ~cur
        /\ perf_proc = 0 /\ procs = << >>

\* the constructor has raised for the angular metric
C7_Witness ==
    /\ metric = "angular" /\ pc = "raised" /\ raised = "RuntimeError"
    /\ raisedAt = "__init__"

\* C8: perf_stop with no active profiler is a no-op: it returns to its
\* caller at once, sends no signal, waits on nothing, raises nothing and
\* leaves _perf_proc, _perf_records and _perf_stats unchanged.
C8_PerfStopNoOp ==
    [][(pc = "perf_stop" /\ perf_proc = 0 /\ pc' # pc) =>
          /\ pc' = Head(stack) /\ stack' = Tail(stack)
          /\ UNCHANGED <<perf_proc, procs, perf_records, perf_stats,
                         raised, clock>>]_vars

\* perf_stop has just returned to perf_start on a session whose previous
\* profiler had already been stopped
C8_Witness ==
    /\ pc = "perf_launch" /\ perf_proc = 0
    /\ Len(procs) >= 1 /\ phase = "indexing"

\* C9 (as claimed): two adapter instances on one host always use distinct
\* endpoint paths and distinct data directories.
C9_DistinctPaths ==
    \A i, j \in DOMAIN insts :
        i # j => /\ insts[i].socket # insts[j].socket
                 /\ insts[i].data_dir # insts[j].data_dir

\* C9 (amended): two instances have distinct data directories exactly when
\* their MARIADB_DB_WORKSPACE values differ; the endpoint path of a
\* MariaDBInnodb instance differs from every endpoint file that exists
\* when it is constructed (and from nothing else); MariaDB instances of one
\* interpreter share the class-level endpoint path and data directory.
C9_PathsAsPlanned ==
    /\ \A i, j \in DOMAIN insts :
          (insts[i].data_dir = insts[j].data_dir) <=>
              (insts[i].ws = insts[j].ws)
    /\ \A i \in DOMAIN insts :
          insts[i].cls = "MariaDBInnodb" =>
              insts[i].socket \notin insts[i].existing
    /\ \A i, j \in DOMAIN insts :
          (/\ insts[i].cls = "MariaDB" /\ insts[j].cls = "MariaDB"
           /\ insts[i].interp = insts[j].interp) =>
              /\ insts[i].socket = insts[j].socket
              /\ insts[i].data_dir = insts[j].data_dir

\* a MariaDBInnodb instance was constructed while another instance's
\* endpoint file existed, with the same workspace
C9_Witness ==
    /\ Len(insts) = 2
    /\ insts[2].cls = "MariaDBInnodb"
    /\ insts[1].socket \in insts[2].existing
    /\ insts[1].ws = insts[2].ws

\* C10: a failure while post-processing one artifact is reported for that
\* artifact only: perf_analysis never raises, and when it is through every
\* accumulated artifact has been processed.
C10_AnalysisFailureIsolated ==
    /\ ~(pc = "raised" /\ raisedAt \in {"analyse_records", "analyse_stats"})
    /\ pc = "done_return" => Len(reports) = ArtifactCount

\* C11: in Stat mode the report printed for a stat file is the sum of the
\* first comma-separated field of every line naming cpu_core/cycles/ or
\* cpu_atom/cycles/; lines naming other counters contribute nothing,
\* whatever their first field; a file with no such line gets the explicit
\* "no data" report and never a sum or an exception (100 and 250 give 350).
C11_StatReportIsCycleSum ==
    LET matching ==
            SelectSeq(stat_file.lines,
                      LAMBDA l : l.counter \in {"cpu_core/cycles/",
                                                "cpu_atom/cycles/"})
    IN  /\ \A i \in DOMAIN reports :
              reports[i].result # "read_error" =>
                 /\ (matching = << >>) <=> (reports[i].result = "nodata")
                 /\ matching # << >> =>
                       /\ reports[i].result = "cycles"
                       /\ \A k \in DOMAIN matching :
                             IsIntLiteral(matching[k].first)
                       /\ reports[i].total = SumValues(matching)
        /\ (stat_file.open = "ok" /\ matching = << >>) =>
              /\ pc # "raised"
              /\ pc = "done_return" => Len(reports) = Len(perf_stats)
        /\ (/\ pc = "done_return"
            /\ stat_file.open = "ok"
            /\ matching = << StatLine(<<"1", "0", "0">>, "cpu_core/cycles/"),
                            StatLine(<<"2", "5", "0">>, "cpu_atom/cycles/") >>)
              => \A i \in 1..Len(perf_stats) : reports[i].total = 350

\* the three stat artifacts were read from a file with a cpu_core line of
\* 100, an instructions line of 7 and a cpu_atom line of 250
C11_Witness ==
    /\ pc = "done_return"
    /\ stat_file.lines =
          << StatLine(<<"1", "0", "0">>, "cpu_core/cycles/"),
             StatLine(<<"7">>, "instructions"),
             StatLine(<<"2", "5", "0">>, "cpu_atom/cycles/") >>
    /\ Len(reports) = 3
    /\ reports[3] = [artifact |-> StatName("searching"),
                     result |-> "cycles", total |-> 350]

\* C12: fit(X) loads every vector of X exactly once: once fit has got
\* through its inserts, and from then on, table t1 holds exactly len(X)
\* rows whose identifiers are 0..len(X)-1 in input order, whatever the
\* database contained when the session was opened.
C12_FitLoadsEveryVectorOnce ==
    (fitted \/ pc = "fit_return") =>
        /\ Len(rows) = X
        /\ \A i \in 1..X : rows[i] = i - 1

\* fit has returned for the largest input
C12_Witness ==
    /\ fitted /\ pc = "idle" /\ inCall = "fit"
    /\ X = MaxVectors /\ Len(rows) = MaxVectors

\* C13: for every workspace path, of any length, the endpoint path
\* generated for the engine has at most 107 characters, and its length is
\* the same for every instance: it does not depend on the workspace path.
C13_SocketPathWithinLimit ==
    /\ \A i \in DOMAIN insts : Len(insts[i].socket) <= SocketPathLimit
    /\ \A i, j \in DOMAIN insts :
          Len(insts[i].socket) = Len(insts[j].socket)
    /\ \A p \in Interps :
          loaded[p] # NotLoaded => Len(loaded[p].sock) <= SocketPathLimit

\* an instance of each adapter was constructed with a workspace path, and
\* so a data directory path, longer than the limit
C13_Witness ==
    /\ Len(insts) = 2
    /\ insts[1].cls = "MariaDB" /\ insts[2].cls = "MariaDBInnodb"
    /\ Len(insts[1].ws) > SocketPathLimit
    /\ Len(insts[2].data_dir) > SocketPathLimit

\* C14: a profiler that has not ended when the 10 units of perf_stop's wait
\* are over never aborts the run: the step that leaves the wait reports the
\* timeout, raises nothing and returns to the statement after the call of
\* perf_stop in the operation that made it (fit after the inserts, fit
\* after the index step, done before the analysis).
C14_ProfilerTimeoutNonFatal ==
    [][(/\ pc = "perf_wait"
        /\ Alive(perf_proc)
        /\ clock >= GracePeriod
        /\ pc' # pc) =>
          /\ perf_msg' = "timeout"
          /\ raised' = "none"
          /\ pc' = Head(stack) /\ stack' = Tail(stack)
          /\ pc' \in {"fit_count", "fit_search", "perf_analysis"}
          /\ inCall' = inCall]_vars

\* fit goes on to count the rows after the "inserting" profiler failed to
\* end within the grace period
C14_Witness ==
    /\ perf_msg = "timeout" /\ pc = "fit_count" /\ inCall = "fit"
    /\ procs = <<"interrupted">>

\* C15: the profiling session never outlives the engine it targets: each
\* profiler has been stopped (interrupt sent, wait finished, _perf_proc
\* cleared) before the engine is told to shut down, so once done() has
\* issued the shutdown command no profiler is registered any more.
C15_ProfilersStoppedBeforeShutdown ==
    engine = "stopping" => (perf_proc = 0 /\ pc # "perf_wait")

\* C16: SQL is issued only while the engine is Ready: a cursor exists only
\* once start_db has seen the endpoint, none exists after a failed
\* initialization or a startup timeout, and whenever fit,
\* set_query_arguments, query or done is about to send a statement the
\* engine is up and has not been told to shut down.
C16_SqlOnlyWhileReady ==
    /\ cur => socket_exists
    /\ (raised = "TimeoutError" \/ initProc \in {"exit1", "missing"}) => ~cur
    /\ (\/ pc \in {"fit_prepare", "fit_insert", "fit_count", "query",
                   "done_shutdown"}
        \/ pc = "set_query_arguments" /\ cls = "MariaDBInnodb")
          => engine = "running"

\* C17: every wait of the adapter is bounded: whenever its thread is
\* blocked (on the initialization procedure, in the sleep of the readiness
\* poll, on a profiler that was interrupted), the passing of time alone
\* gets it out: either time can still pass towards the deadline of the
\* wait, or the wait is over and the thread can go on, whatever the other
\* processes do or fail to do.
C17_EveryWaitBounded ==
    pc \in {"init_wait", "poll_sleep", "perf_wait"} =>
        ENABLED (Tick \/ InitWait \/ PollSleep \/ PerfWaitReturns
                 \/ PerfWaitTimesOut)

\* C18 (as claimed): with profiling enabled, in every state in which a
\* profiler is registered as active its artifact name is already the last
\* entry of the list of the resolved mode, tagged with the phase name and
\* the start timestamp; after a complete fit the list is exactly
\* inserting, indexing, searching.
C18_ActiveProfilerAlwaysListed ==
    LET Tag(n) == IF perf_record THEN <<"perf.data", n, TestTime>>
                  ELSE <<"perf.stat", n, TestTime>>
    IN  ProfilingEnabled =>
          /\ perf_proc # 0 =>
                /\ Len(ModeList) = perf_proc
                /\ ModeList[perf_proc] = Tag(phase)
          /\ fitted => ModeList = <<Tag("inserting"), Tag("indexing"),
                                    Tag("searching")>>

\* C18 (amended): perf_start launches the profiler and appends its
\* artifact name in the very next statement: between the two the registered
\* profiler is the one entry ahead of the list; in every other state in
\* which a profiler is registered its artifact name is the last entry of
\* the list of the resolved mode.  Every perf_start(name) that gets to the
\* launch adds exactly one entry, tagged with name and the start
\* timestamp, nothing else changes the lists, and after a complete fit the
\* list is exactly inserting, indexing, searching.
C18_ArtifactListedRightAfterLaunch ==
    [][LET Tag(rec, n) == IF rec THEN <<"perf.data", n, TestTime>>
                          ELSE <<"perf.stat", n, TestTime>>
       IN  /\ (ProfilingEnabled /\ perf_proc # 0 /\ pc # "perf_append")' =>
                 /\ Len(ModeList') = perf_proc'
                 /\ ModeList'[perf_proc'] = Tag(perf_record', phase')
           /\ (ProfilingEnabled /\ pc = "perf_append")' =>
                 perf_proc' = Len(ModeList') + 1
           /\ IF ProfilingEnabled /\ pc = "perf_append" /\ pc' # pc
              THEN ModeList' = Append(ModeList, Tag(perf_record, phase))
              ELSE UNCHANGED <<perf_records, perf_stats>>
           /\ (ProfilingEnabled /\ fitted)' =>
                 ModeList' = <<Tag(perf_record', "inserting"),
                               Tag(perf_record', "indexing"),
                               Tag(perf_record', "searching")>>]_vars

\* fit has returned in Stat mode with the "searching" profiler started
C18_Witness ==
    /\ perf_stat /\ fitted /\ pc = "idle" /\ inCall = "fit"
    /\ perf_proc = 3 /\ Len(perf_stats) = 3
    /\ perf_stats[3] = <<"perf.stat", "searching", TestTime>>

\* C19: when the resolved profiling mode is Disabled (neither Stat nor
\* FlameGraph is both selected and available), nothing fit,
\* set_query_arguments, query and done do launches a profiler, signals or
\* waits for one, records an artifact or post-processes one: both mode
\* flags are off, _perf_proc stays None and the lists stay empty.
C19_DisabledNeverProfiles ==
    (~StatAvailable(env, host) /\ ~RecordAvailable(env, host)) =>
        /\ ~perf_stat /\ ~perf_record
        /\ perf_proc = 0 /\ procs = << >>
        /\ perf_records = << >> /\ perf_stats = << >>
        /\ perf_msg = "none" /\ reports = << >>
        /\ pc \notin {"perf_launch", "perf_append", "perf_wait"}

\* done() has returned on a MariaDBInnodb instance whose Stat selector was
\* set on a host where perf cannot run, after fit and the queries
C19_Witness ==
    /\ cls = "MariaDBInnodb" /\ env.PERF /\ host.perf = "denied"
    /\ inCall = "done" /\ pc = "idle" /\ queries = MaxQueries

\* C20: with profiling enabled the "searching" phase spans the whole query
\* loop: from the return of fit until done is called _perf_proc is the
\* profiler launched last, whose artifact is tagged "searching", and no
\* step of set_query_arguments or query changes _perf_proc, _perf_records
\* or _perf_stats.
C20_SearchingSpansQueryLoop ==
    [][/\ (ProfilingEnabled /\ fitted /\ doneCalls = 0)' =>
             /\ perf_proc' # 0
             /\ perf_proc' = Len(procs')
             /\ perf_proc' = Len(ModeList')
             /\ ModeList'[perf_proc'][2] = "searching"
       /\ (\/ pc \in {"set_query_arguments", "query"}
           \/ pc' \in {"set_query_arguments", "query"}) =>
             UNCHANGED <<perf_proc, perf_records, perf_stats>>]_vars

\* the query loop has run with the "searching" profiler still registered
C20_Witness ==
    /\ ProfilingEnabled /\ fitted /\ doneCalls = 0
    /\ queries = MaxQueries /\ inCall = "query" /\ pc = "idle"
    /\ perf_proc = Len(procs) /\ phase = "searching"

\* C21: when start_db raises the startup timeout, the engine has been
\* launched exactly once, the adapter has neither signalled nor waited for
\* the engine process nor told it to shut down (it is left to itself), no
\* connection and no cursor have been created, and no profiler has been
\* started.
C21_StartupTimeoutLeavesEngine ==
    raised = "TimeoutError" =>
        /\ pc = "raised" /\ raisedAt = "poll_time" /\ inCall = "__init__"
        /\ launches = 1
        /\ engine \in {"running", "exited"}
        /\ conn = "none" /\ ~cur
        /\ perf_proc = 0 /\ procs = << >>
        /\ perf_records = << >> /\ perf_stats = << >>

\* the constructor has timed out on an engine that is still running and
\* never bound its endpoint
C21_Witness ==
    /\ raised = "TimeoutError" /\ engine = "running" /\ ~socket_exists
    /\ launches = 1 /\ cls = "MariaDBInnodb"

====
